---- MODULE Spec2Model ----
(***************************************************************************)
(* A model of windebug_logger (src/src/lib.rs): the WinDebugLogger sink,   *)
(* the emit routine `log` that renders one record and hands it to          *)
(* OutputDebugStringW, and the three initialization entry points.          *)
(*                                                                         *)
(* Text is modelled as sequences of characters (one-character strings,     *)
(* plus two symbolic characters: NUL and a character outside the BMP).     *)
(* Wide strings are sequences of 16-bit code units.                        *)
(***************************************************************************)
EXTENDS Integers, Sequences, FiniteSets, TLC

VARIABLES
    logger,     \* the logger installed in the global registry, or NoLogger
    maxLevel,   \* the global maximum level filter (log::max_level())
    initCount,  \* number of calls made to the initialization entry points
    firstInit,  \* the first call to an entry point: [fn, level, ret]
    lastInit,   \* the most recent call to an entry point: [fn, level, ret]
    pc,         \* per thread: position inside WinDebugLogger::log / log
    frame,      \* per thread: the locals of the call in progress
    trace,      \* per thread: the steps the call in progress has performed
    debug,      \* per thread: lines the call in progress passed to OutputDebugStringW
    heap        \* LocalAlloc heap: address -> [live, data]

vars == <<logger, maxLevel, initCount, firstInit, lastInit, pc, frame, trace, debug, heap>>

----------------------------------------------------------------------------
(* Bounds *)

\* number of threads that emit concurrently in SpecConc
NThreads == 2

\* cap on the number of calls to the initialization entry points
MaxInits == 3

(* Program constants *)

\* const MAX_LEN: usize = 40
MAX_LEN == 40

\* the width in "{:<5}"
LevelWidth == 5

----------------------------------------------------------------------------
(* log::Level and log::LevelFilter *)

Levels == {"Error", "Warn", "Info", "Debug", "Trace"}

\* the discriminants of log::Level; Level's ordering is the discriminants'
LevelNum(l) ==
    CASE l = "Error" -> 1
      [] l = "Warn"  -> 2
      [] l = "Info"  -> 3
      [] l = "Debug" -> 4
      [] l = "Trace" -> 5

\* Level::to_level_filter: the filter with the same discriminant
to_level_filter(l) == LevelNum(l)

\* LevelFilter::Off, the initial global maximum level
LevelFilterOff == 0

\* <Level as Display>: the upper-case name
LevelStr(l) ==
    CASE l = "Error" -> <<"E", "R", "R", "O", "R">>
      [] l = "Warn"  -> <<"W", "A", "R", "N">>
      [] l = "Info"  -> <<"I", "N", "F", "O">>
      [] l = "Debug" -> <<"D", "E", "B", "U", "G">>
      [] l = "Trace" -> <<"T", "R", "A", "C", "E">>

----------------------------------------------------------------------------
(* Characters and code units *)

NUL == "NUL"            \* U+0000
Astral == "U+1F600"     \* a character outside the Basic Multilingual Plane

\* the printable ASCII characters, U+0020 .. U+007E, in code order
\* ("GRAVE" stands for U+0060)
Printable ==
    <<" ", "!", "\"", "#", "$", "%", "&", "'", "(", ")", "*", "+", ",", "-", ".", "/",
      "0", "1", "2", "3", "4", "5", "6", "7", "8", "9", ":", ";", "<", "=", ">", "?",
      "@", "A", "B", "C", "D", "E", "F", "G", "H", "I", "J", "K", "L", "M", "N", "O",
      "P", "Q", "R", "S", "T", "U", "V", "W", "X", "Y", "Z", "[", "\\", "]", "^", "_",
      "GRAVE", "a", "b", "c", "d", "e", "f", "g", "h", "i", "j", "k", "l", "m", "n", "o",
      "p", "q", "r", "s", "t", "u", "v", "w", "x", "y", "z", "{", "|", "}", "~">>

Alphabet == {Printable[i] : i \in 1..Len(Printable)} \cup {NUL, "\n", Astral}

\* the scalar value of each character
CodeOf ==
    [c \in Alphabet |->
        CASE c = NUL    -> 0
          [] c = "\n"   -> 10
          [] c = Astral -> 128512
          [] OTHER      -> 31 + (CHOOSE i \in 1..Len(Printable) : Printable[i] = c)]

CodePoint(c) == CodeOf[c]

\* UTF-16: one unit inside the BMP, a surrogate pair outside it
Utf16(c) ==
    LET cp == CodePoint(c)
    IN  IF cp < 65536
        THEN <<cp>>
        ELSE <<55296 + ((cp - 65536) \div 1024), 56320 + ((cp - 65536) % 1024)>>

RECURSIVE EncodeWide(_)
EncodeWide(s) == IF s = <<>> THEN <<>> ELSE Utf16(Head(s)) \o EncodeWide(Tail(s))

Some(v) == [some |-> TRUE, val |-> v]
None == [some |-> FALSE, val |-> <<>>]

HasNul(s) == \E i \in 1..Len(s) : s[i] = NUL

\* codecvt::str_to_c_wstr: the wide, zero-terminated form of s, or None when
\* the conversion reports an error (osOk = FALSE) or s holds an embedded null
str_to_c_wstr(s, osOk) ==
    IF ~osOk \/ HasNul(s) THEN None ELSE Some(EncodeWide(s) \o <<0>>)

\* a wide C string as its callee reads it: the units before the first zero
RECURSIVE CStr(_)
CStr(w) == IF w = <<>> \/ Head(w) = 0 THEN <<>> ELSE <<Head(w)>> \o CStr(Tail(w))

----------------------------------------------------------------------------
(* Formatting *)

RECURSIVE Spaces(_)
Spaces(n) == IF n <= 0 THEN <<>> ELSE <<" ">> \o Spaces(n - 1)

\* padding on the wrong side, as "{:>5}" would
PadRight(s, width) == Spaces(width - Len(s)) \o s

\* "{:<5}" on a Level: Formatter::pad, left-aligned, filled with spaces to
\* the minimum width
PadLeft(s, width) == s \o Spaces(width - Len(s))

\* the category with the module path preferred over the target
ResolveTarget_modfirst(record) ==
    IF record.module_path.some
    THEN record.module_path.val
    ELSE record.target

\* lines 52-56: the category of a record
ResolveTarget(record) ==
    IF Len(record.target) > 0
    THEN record.target
    ELSE IF record.module_path.some THEN record.module_path.val ELSE <<>>

\* line 59: format!("{:<5} [{}] {}", record.level(), target, record.args())
FormatBody(level, target, args) ==
    PadLeft(LevelStr(level), LevelWidth) \o <<" ", "[">> \o target \o <<"]", " ">> \o args

Digit(d) == 48 + d
TwoDigits(n) == <<Digit((n \div 10) % 10), Digit(n % 10)>>
FourDigits(n) == TwoDigits(n \div 100) \o TwoDigits(n % 100)

\* the short date of the invariant locale, MM/dd/yyyy
InvariantDate(st) == TwoDigits(st.wMonth) \o <<47>> \o TwoDigits(st.wDay) \o <<47>> \o FourDigits(st.wYear)

\* the time of the invariant locale, HH:mm:ss
InvariantTime(st) == TwoDigits(st.wHour) \o <<58>> \o TwoDigits(st.wMinute) \o <<58>> \o TwoDigits(st.wSecond)

\* GetDateFormatW / GetTimeFormatW into a buffer of cch units: the buffer
\* written (text and its terminator) and the count returned; 0 on failure,
\* also when the text and its terminator do not fit
FormatInto(text, cch, osOk) ==
    IF ~osOk \/ Len(text) + 1 > cch
    THEN [result |-> 0, buf |-> <<>>]
    ELSE [result |-> Len(text) + 1, buf |-> text \o <<0>>]

GetDateFormatW(st, cch, osOk) == FormatInto(InvariantDate(st), cch, osOk)
GetTimeFormatW(st, cch, osOk) == FormatInto(InvariantTime(st), cch, osOk)

\* the pattern with date and time exchanged
FinalPattern_swapped == EncodeWide(<<"%", "2", " ", "%", "1", " ", "%", "3", "\n">>) \o <<0>>

\* wch_c!("%1 %2 %3\n")
FinalPattern == EncodeWide(<<"%", "1", " ", "%", "2", " ", "%", "3", "\n">>) \o <<0>>

\* FormatMessageW's expansion of a pattern: %1 .. %9 insert the argument
\* strings, every other unit is copied
RECURSIVE ExpandInserts(_, _)
ExpandInserts(f, args) ==
    IF f = <<>> THEN <<>>
    ELSE IF f[1] = 37 /\ Len(f) >= 2 /\ f[2] \in 49..57 /\ f[2] - 48 <= Len(args)
         THEN CStr(args[f[2] - 48]) \o ExpandInserts(SubSeq(f, 3, Len(f)), args)
         ELSE <<f[1]>> \o ExpandInserts(Tail(f), args)

\* FormatMessageW(ALLOCATE_BUFFER | FROM_STRING | ARGUMENT_ARRAY): the text
\* stored in the buffer it allocates and the count returned (0 on failure)
FormatMessageW(pattern, args, osOk) ==
    LET text == ExpandInserts(CStr(pattern), args)
    IN  IF ~osOk \/ text = <<>>
        THEN [result |-> 0, text |-> <<>>]
        ELSE [result |-> Len(text), text |-> text \o <<0>>]

----------------------------------------------------------------------------
(* Inputs *)

AppNet == <<"a", "p", "p", ":", ":", "n", "e", "t">>
CrateMod == <<"c", "r", "a", "t", "e", ":", ":", "m", "o", "d">>
ConnectionLost == <<"c", "o", "n", "n", "e", "c", "t", "i", "o", "n", " ", "l", "o", "s", "t">>
TwoLines == <<"a", "\n", "b">>
EndsInNewline == <<"o", "k", "\n">>
WithNul == <<"x", NUL, "y">>
Smile == <<Astral>>

Targets == {<<>>, AppNet}
ModulePaths == {None, Some(CrateMod)}
Messages == {ConnectionLost, TwoLines, EndsInNewline, WithNul, Smile}

\* the records the single caller of Spec passes
Records == [level : Levels, target : Targets, module_path : ModulePaths, args : Messages]

\* the records the concurrent callers of SpecConc pass
ConcRecords ==
    { [level |-> "Warn", target |-> <<"n", "e", "t">>, module_path |-> None, args |-> <<"u", "p">>],
      [level |-> "Error", target |-> <<>>, module_path |-> Some(<<"m">>), args |-> EndsInNewline],
      [level |-> "Info", target |-> <<"n", "e", "t">>, module_path |-> None, args |-> TwoLines] }

\* what GetSystemTime may return (UTC)
SystemTimes ==
    { [wYear |-> 2026, wMonth |-> 11, wDay |-> 4, wHour |-> 9, wMinute |-> 58, wSecond |-> 7],
      [wYear |-> 1999, wMonth |-> 12, wDay |-> 31, wHour |-> 23, wMinute |-> 59, wSecond |-> 59] }

SeqThreads == {0}
ConcThreads == 1..NThreads
Threads == SeqThreads \cup ConcThreads
Addrs == 1..(NThreads + 1)

----------------------------------------------------------------------------
(* State *)

NoLogger == [level |-> "none", storage |-> "none"]
NoInit == [fn |-> "none", level |-> "none", ret |-> "none"]

NoRecord == [level |-> "Trace", target |-> <<>>, module_path |-> None, args |-> <<>>]
NoTime == [wYear |-> 0, wMonth |-> 0, wDay |-> 0, wHour |-> 0, wMinute |-> 0, wSecond |-> 0]

\* the locals of one call before any of them is assigned; final_str = 0 is
\* "no buffer", date_str / time_str = <<>> is a buffer not yet written
EmptyFrame ==
    [record |-> NoRecord, target |-> <<>>, body |-> <<>>, wbody |-> <<>>,
     system_time |-> NoTime, date_str |-> <<>>, time_str |-> <<>>,
     final_str |-> 0, result |-> "pending"]

FreeCell == [live |-> FALSE, data |-> <<>>]

Init ==
    /\ logger = NoLogger
    /\ maxLevel = LevelFilterOff
    /\ initCount = 0
    /\ firstInit = NoInit
    /\ lastInit = NoInit
    /\ pc = [t \in Threads |-> "idle"]
    /\ frame = [t \in Threads |-> EmptyFrame]
    /\ trace = [t \in Threads |-> <<>>]
    /\ debug = [t \in Threads |-> <<>>]
    /\ heap = [a \in Addrs |-> FreeCell]

\* a process in which init_with_level(Warn) has succeeded and no record has
\* been logged yet
InitConc ==
    /\ logger = [level |-> "Warn", storage |-> "boxed"]
    /\ maxLevel = to_level_filter("Warn")
    /\ initCount = 1
    /\ firstInit = [fn |-> "init_with_level", level |-> "Warn", ret |-> "Ok"]
    /\ lastInit = firstInit
    /\ pc = [t \in Threads |-> "idle"]
    /\ frame = [t \in Threads |-> EmptyFrame]
    /\ trace = [t \in Threads |-> <<>>]
    /\ debug = [t \in Threads |-> <<>>]
    /\ heap = [a \in Addrs |-> FreeCell]

regVars == <<logger, maxLevel, initCount, firstInit, lastInit>>
emitVars == <<pc, frame, trace, debug, heap>>

----------------------------------------------------------------------------
(* Registration: the entry points and the registry they call *)

\* log::set_logger / log::set_boxed_logger: installs the logger when none is
\* installed, fails with SetLoggerError otherwise
set_logger(new) ==
    IF logger = NoLogger
    THEN [ok |-> TRUE, logger |-> new]
    ELSE [ok |-> FALSE, logger |-> logger]

Recorded(fn, level, ret) ==
    LET call == [fn |-> fn, level |-> level, ret |-> ret]
    IN  /\ initCount' = initCount + 1
        /\ firstInit' = IF initCount = 0 THEN call ELSE firstInit
        /\ lastInit' = call

\* init_with_level with the registry's error swallowed
init_with_level_swallow(level) ==
    /\ initCount < MaxInits
    /\ LET r == set_logger([level |-> level, storage |-> "boxed"])
       IN  IF r.ok
           THEN /\ logger' = r.logger
                /\ maxLevel' = to_level_filter(level)
                /\ Recorded("init_with_level", level, "Ok")
           ELSE /\ UNCHANGED <<logger, maxLevel>>
                /\ Recorded("init_with_level", level, "Ok")
    /\ UNCHANGED emitVars

\* init_with_level with set_max_level called before the result is matched
init_with_level_eager(level) ==
    /\ initCount < MaxInits
    /\ LET r == set_logger([level |-> level, storage |-> "boxed"])
       IN  /\ logger' = r.logger
           /\ maxLevel' = to_level_filter(level)
           /\ Recorded("init_with_level", level, IF r.ok THEN "Ok" ELSE "SetLoggerError")
    /\ UNCHANGED emitVars

\* lines 187-196
init_with_level(level) ==
    /\ initCount < MaxInits
    /\ LET r == set_logger([level |-> level, storage |-> "boxed"])
       IN  IF r.ok
           THEN /\ logger' = r.logger
                /\ maxLevel' = to_level_filter(level)
                /\ Recorded("init_with_level", level, "Ok")
           ELSE /\ UNCHANGED <<logger, maxLevel>>
                /\ Recorded("init_with_level", level, "SetLoggerError")
    /\ UNCHANGED emitVars

\* lines 163-174, the expansion of init_with_level_static!($level) in fn
StaticInit(fn, level) ==
    /\ initCount < MaxInits
    /\ LET r == set_logger([level |-> level, storage |-> "static"])
       IN  IF r.ok
           THEN /\ logger' = r.logger
                /\ maxLevel' = to_level_filter(r.logger.level)
                /\ Recorded(fn, level, "Ok")
           ELSE /\ UNCHANGED <<logger, maxLevel>>
                /\ Recorded(fn, level, "SetLoggerError")
    /\ UNCHANGED emitVars

init_with_level_static(level) == StaticInit("init_with_level_static", level)

\* init with a less verbose level
init_info == StaticInit("init", "Info")

\* lines 207-209
init == StaticInit("init", "Trace")

----------------------------------------------------------------------------
(* WinDebugLogger::log and the emit routine log, one step at a time *)

\* enabled with a strict comparison
enabled_strict(self, level) == LevelNum(level) < LevelNum(self.level)

\* lines 35-37
enabled(self, level) == LevelNum(level) <= LevelNum(self.level)

\* what a step leaves in the trace: its name and whether it succeeded
Done(name) == <<name, "ok">>
Failed(name) == <<name, "failed">>

Step(t, from, to, event) ==
    /\ pc[t] = from
    /\ pc' = [pc EXCEPT ![t] = to]
    /\ trace' = [trace EXCEPT ![t] = Append(@, event)]

\* the early returns of log (`?`, `return None`)
ReturnNone(t, from, name) ==
    /\ Step(t, from, "ret", Failed(name))
    /\ frame' = [frame EXCEPT ![t].result = "None"]

\* a caller passes a record to the installed logger
Call(t, recs) ==
    /\ pc[t] = "idle"
    /\ logger # NoLogger
    /\ \E r \in recs :
        frame' = [frame EXCEPT ![t] = [EmptyFrame EXCEPT !.record = r]]
    /\ pc' = [pc EXCEPT ![t] = "enabled"]
    /\ UNCHANGED <<trace, debug, heap, regVars>>

\* lines 39-46: the filter of WinDebugLogger::log
Filter(t) ==
    /\ pc[t] = "enabled"
    /\ IF enabled(logger, frame[t].record.level)
       THEN /\ Step(t, "enabled", "body", Done("enabled"))
            /\ UNCHANGED frame
       ELSE /\ Step(t, "enabled", "ret", Done("enabled"))
            /\ frame' = [frame EXCEPT ![t].result = "filtered"]
    /\ UNCHANGED <<debug, heap, regVars>>

\* lines 52-59
Body(t) ==
    /\ Step(t, "body", "encode", Done("body"))
    /\ LET target == ResolveTarget(frame[t].record)
       IN  frame' = [frame EXCEPT
                        ![t].target = target,
                        ![t].body = FormatBody(frame[t].record.level, target,
                                               frame[t].record.args)]
    /\ UNCHANGED <<debug, heap, regVars>>

\* line 60
Encode(t) ==
    /\ pc[t] = "encode"
    /\ \E osOk \in BOOLEAN :
        LET r == str_to_c_wstr(frame[t].body, osOk)
        IN  IF r.some
            THEN /\ Step(t, "encode", "systime", Done("encode"))
                 /\ frame' = [frame EXCEPT ![t].wbody = r.val]
            ELSE ReturnNone(t, "encode", "encode")
    /\ UNCHANGED <<debug, heap, regVars>>

\* lines 63-67
GetSystemTime(t) ==
    /\ Step(t, "systime", "date", Done("systime"))
    /\ \E st \in SystemTimes : frame' = [frame EXCEPT ![t].system_time = st]
    /\ UNCHANGED <<debug, heap, regVars>>

\* lines 71-89
GetDateFormat(t) ==
    /\ pc[t] = "date"
    /\ \E osOk \in BOOLEAN :
        LET r == GetDateFormatW(frame[t].system_time, MAX_LEN, osOk)
        IN  IF r.result = 0
            THEN ReturnNone(t, "date", "date")
            ELSE /\ Step(t, "date", "time", Done("date"))
                 /\ frame' = [frame EXCEPT ![t].date_str = r.buf]
    /\ UNCHANGED <<debug, heap, regVars>>

\* GetTimeFormat with the check of the result left out
GetTimeFormat_unchecked(t) ==
    /\ pc[t] = "time"
    /\ \E osOk \in BOOLEAN :
        LET r == GetTimeFormatW(frame[t].system_time, MAX_LEN, osOk)
        IN  /\ Step(t, "time", "format", IF r.result = 0 THEN Failed("time") ELSE Done("time"))
            /\ frame' = [frame EXCEPT ![t].time_str = r.buf]
    /\ UNCHANGED <<debug, heap, regVars>>

\* lines 91-109
GetTimeFormat(t) ==
    /\ pc[t] = "time"
    /\ \E osOk \in BOOLEAN :
        LET r == GetTimeFormatW(frame[t].system_time, MAX_LEN, osOk)
        IN  IF r.result = 0
            THEN ReturnNone(t, "time", "time")
            ELSE /\ Step(t, "time", "format", Done("time"))
                 /\ frame' = [frame EXCEPT ![t].time_str = r.buf]
    /\ UNCHANGED <<debug, heap, regVars>>

\* one fixed buffer in place of an allocation per call
LocalAlloc_static == CHOOSE a \in Addrs : \A b \in Addrs : a <= b

\* LocalAlloc inside FormatMessageW: an address that is not live
LocalAlloc == CHOOSE a \in Addrs : ~heap[a].live /\ \A b \in Addrs : ~heap[b].live => a <= b

\* lines 115-137
FormatMessage(t) ==
    /\ pc[t] = "format"
    /\ \E osOk \in BOOLEAN :
        LET parts == <<frame[t].date_str, frame[t].time_str, frame[t].wbody>>
            r == FormatMessageW(FinalPattern, parts, osOk)
        IN  IF r.result = 0
            THEN /\ ReturnNone(t, "format", "format")
                 /\ UNCHANGED heap
            ELSE /\ Step(t, "format", "output", Done("format"))
                 /\ heap' = [heap EXCEPT ![LocalAlloc] = [live |-> TRUE, data |-> r.text]]
                 /\ frame' = [frame EXCEPT ![t].final_str = LocalAlloc]
    /\ UNCHANGED <<debug, regVars>>

\* OutputDebugString followed by a return that skips LocalFree
OutputDebugString_noFree(t) ==
    /\ Step(t, "output", "ret", Done("output"))
    /\ debug' = [debug EXCEPT ![t] = Append(@, CStr(heap[frame[t].final_str].data))]
    /\ frame' = [frame EXCEPT ![t].result = "Some"]
    /\ UNCHANGED <<heap, regVars>>

\* lines 140-142
OutputDebugString(t) ==
    /\ Step(t, "output", "free", Done("output"))
    /\ debug' = [debug EXCEPT ![t] = Append(@, CStr(heap[frame[t].final_str].data))]
    /\ UNCHANGED <<frame, heap, regVars>>

\* lines 144-147
LocalFree(t) ==
    /\ Step(t, "free", "ret", Done("free"))
    /\ heap' = [heap EXCEPT ![frame[t].final_str] = FreeCell]
    /\ frame' = [frame EXCEPT ![t].result = "Some"]
    /\ UNCHANGED <<debug, regVars>>

\* WinDebugLogger::log returns to its caller (line 45 discards log's result)
Return(t) ==
    /\ pc[t] = "ret"
    /\ pc' = [pc EXCEPT ![t] = "idle"]
    /\ frame' = [frame EXCEPT ![t] = EmptyFrame]
    /\ trace' = [trace EXCEPT ![t] = <<>>]
    /\ debug' = [debug EXCEPT ![t] = <<>>]
    /\ UNCHANGED <<heap, regVars>>

----------------------------------------------------------------------------
(* Specifications *)

\* one caller; the entry points may be called at any time
Next ==
    \/ \E level \in Levels : init_with_level(level)
    \/ \E level \in Levels : init_with_level_static(level)
    \/ init
    \/ \E t \in SeqThreads :
        \/ Call(t, Records)
        \/ Filter(t)
        \/ Body(t)
        \/ Encode(t)
        \/ GetSystemTime(t)
        \/ GetDateFormat(t)
        \/ GetTimeFormat(t)
        \/ FormatMessage(t)
        \/ OutputDebugString(t)
        \/ LocalFree(t)
        \/ Return(t)

Spec == Init /\ [][Next]_vars

\* NThreads callers emitting concurrently on the installed logger
NextConc ==
    \E t \in ConcThreads :
        \/ Call(t, ConcRecords)
        \/ Filter(t)
        \/ Body(t)
        \/ Encode(t)
        \/ GetSystemTime(t)
        \/ GetDateFormat(t)
        \/ GetTimeFormat(t)
        \/ FormatMessage(t)
        \/ OutputDebugString(t)
        \/ LocalFree(t)
        \/ Return(t)

SpecConc == InitConc /\ [][NextConc]_vars

----------------------------------------------------------------------------
(* Properties *)

Count(seq, x) == Cardinality({i \in 1..Len(seq) : seq[i] = x})
Has(seq, x) == \E i \in 1..Len(seq) : seq[i] = x
Before(seq, x, y) == \E i, j \in 1..Len(seq) : i < j /\ seq[i] = x /\ seq[j] = y

EmitSteps == {"encode", "date", "time", "format"}
StepFailed(t) == \E n \in EmitSteps : Has(trace[t], <<n, "failed">>)

\* the severity ranks the claims speak of: Error < Warn < Info < Debug < Trace
Rank == [Error |-> 1, Warn |-> 2, Info |-> 3, Debug |-> 4, Trace |-> 5]

\* the level names the claims speak of
Name ==
    [Error |-> <<"E", "R", "R", "O", "R">>, Warn |-> <<"W", "A", "R", "N">>,
     Info |-> <<"I", "N", "F", "O">>, Debug |-> <<"D", "E", "B", "U", "G">>,
     Trace |-> <<"T", "R", "A", "C", "E">>]

InCall(t) == pc[t] # "idle"
PastFilter(t) == pc[t] \notin {"idle", "enabled"}
PastBody(t) == pc[t] \notin {"idle", "enabled", "body"} /\ frame[t].result # "filtered"

\* C1 as claimed: for every threshold T and every record r passed to
\* WinDebugLogger::log, when the call returns a debug-output call has been
\* produced if r.level <= T, and none if r.level > T.
C1_AsClaimed ==
    \A t \in Threads :
        pc[t] = "ret" =>
            IF Rank[frame[t].record.level] <= Rank[logger.level]
            THEN Len(debug[t]) = 1
            ELSE debug[t] = <<>>

\* C1 as amended: a record with r.level > T never produces a debug-output
\* call and is returned at the filter; a record with r.level <= T is handed
\* to the emit routine and, when the call returns, has produced exactly one
\* debug-output call unless an internal step failed, and none if one did.
C1_FilterDecidesEmit ==
    \A t \in Threads :
        LET r == frame[t].record
            passes == Rank[r.level] <= Rank[logger.level]
        IN  /\ InCall(t) /\ ~passes => debug[t] = <<>>
            /\ PastFilter(t) /\ ~passes => pc[t] = "ret" /\ frame[t].result = "filtered"
            /\ PastFilter(t) /\ passes => frame[t].result # "filtered"
            /\ pc[t] = "ret" /\ passes =>
                Len(debug[t]) = (IF StepFailed(t) THEN 0 ELSE 1)

\* with T = Warn, a Warn record has been output
C1_Witness ==
    \E t \in Threads :
        /\ pc[t] = "ret"
        /\ logger.level = "Warn"
        /\ frame[t].record.level = "Warn"
        /\ Len(debug[t]) = 1

\* C2: when an internal step of the emit fails (encoding, date formatting,
\* time formatting, message composition) the call is at its return with no
\* debug-output call made, no buffer held and none left allocated, and the
\* failure is only the discarded result None.
C2_FailureDropsEmit ==
    \A t \in Threads :
        StepFailed(t) =>
            /\ pc[t] = "ret"
            /\ frame[t].result = "None"
            /\ debug[t] = <<>>
            /\ ~Has(trace[t], <<"output", "ok">>)
            /\ frame[t].final_str = 0
            /\ \A a \in Addrs :
                heap[a].live => \E u \in Threads \ {t} : frame[u].final_str = a

\* message composition failed after every earlier step succeeded
C2_Witness ==
    \E t \in Threads :
        /\ pc[t] = "ret"
        /\ Has(trace[t], <<"time", "ok">>)
        /\ Has(trace[t], <<"format", "failed">>)
        /\ debug[t] = <<>>

\* C3: the first call to an initialization entry point returns Ok and every
\* later one SetLoggerError; no logger is installed before the first call
\* and afterwards the installed logger is the first call's.
C3_FirstInitWins ==
    /\ initCount = 0 => logger = NoLogger
    /\ initCount >= 1 =>
        /\ firstInit.ret = "Ok"
        /\ logger # NoLogger
        /\ logger.level = firstInit.level
        /\ logger.storage = (IF firstInit.fn = "init_with_level" THEN "boxed" ELSE "static")
    /\ initCount = 1 => lastInit = firstInit
    /\ initCount >= 2 => lastInit.ret = "SetLoggerError"

\* a third call, of another entry point with another level, has failed
C3_Witness ==
    /\ initCount >= 3
    /\ lastInit.ret = "SetLoggerError"
    /\ lastInit.fn # firstInit.fn
    /\ lastInit.level # firstInit.level

\* the body the claims describe for a level, a category and a message
BodyShape(b, level, cat, msg) ==
    LET n == Len(Name[level])
        w == IF n < 5 THEN 5 ELSE n
    IN  /\ Len(b) = w + 2 + Len(cat) + 2 + Len(msg)
        /\ \A i \in 1..n : b[i] = Name[level][i]
        /\ \A i \in (n + 1)..w : b[i] = " "
        /\ b[w + 1] = " "
        /\ b[w + 2] = "["
        /\ \A i \in 1..Len(cat) : b[w + 2 + i] = cat[i]
        /\ b[w + 3 + Len(cat)] = "]"
        /\ b[w + 4 + Len(cat)] = " "
        /\ \A i \in 1..Len(msg) : b[w + 4 + Len(cat) + i] = msg[i]

WarnAppNetConnectionLost ==
    <<"W", "A", "R", "N", " ", " ", "[", "a", "p", "p", ":", ":", "n", "e", "t", "]", " ",
      "c", "o", "n", "n", "e", "c", "t", "i", "o", "n", " ", "l", "o", "s", "t">>

\* C4: the body is the level name, left-aligned and padded with spaces to
\* width 5, a space, '[', the category, ']', a space and the message; Warn,
\* "app::net", "connection lost" gives "WARN  [app::net] connection lost".
C4_BodyLine ==
    \A t \in Threads :
        PastBody(t) =>
            /\ BodyShape(frame[t].body, frame[t].record.level, frame[t].target,
                         frame[t].record.args)
            /\ (/\ frame[t].record.level = "Warn"
                /\ frame[t].target = AppNet
                /\ frame[t].record.args = ConnectionLost)
               => frame[t].body = WarnAppNetConnectionLost
            /\ Len(Name[frame[t].record.level]) = 5
               => SubSeq(frame[t].body, 1, 7) = Name[frame[t].record.level] \o <<" ", "[">>

C4_Witness ==
    \E t \in Threads :
        /\ PastBody(t)
        /\ frame[t].record.level = "Warn"
        /\ frame[t].body = WarnAppNetConnectionLost

\* the category a body carries: what stands between "[" at position 7 and
\* the first "]" after it
RECURSIVE UpToBracket(_)
UpToBracket(s) ==
    IF s = <<>> \/ Head(s) = "]" THEN <<>> ELSE <<Head(s)>> \o UpToBracket(Tail(s))
CategoryOf(b) == UpToBracket(SubSeq(b, 8, Len(b)))

\* C5: the category in the body is the record's target when the target is
\* not empty, else the module path when there is one, else empty.
C5_Category ==
    \A t \in Threads :
        PastBody(t) =>
            LET r == frame[t].record
                cat == CategoryOf(frame[t].body)
            IN  /\ frame[t].body[7] = "["
                /\ Len(r.target) > 0 => cat = r.target
                /\ Len(r.target) = 0 /\ r.module_path.some => cat = r.module_path.val
                /\ Len(r.target) = 0 /\ ~r.module_path.some =>
                    /\ cat = <<>>
                    /\ SubSeq(frame[t].body, 6, 9) = <<" ", "[", "]", " ">>

\* Info, empty target, module path crate::mod: "INFO  [crate::mod] ..."
C5_Witness ==
    \E t \in Threads :
        /\ PastBody(t)
        /\ frame[t].record.level = "Info"
        /\ frame[t].record.target = <<>>
        /\ frame[t].record.module_path = Some(CrateMod)
        /\ SubSeq(frame[t].body, 1, 18) =
            <<"I", "N", "F", "O", " ", " ", "[", "c", "r", "a", "t", "e", ":", ":", "m", "o", "d", "]">>

\* a wide line cut at its first space
RECURSIVE UpToSpace(_)
UpToSpace(w) == IF w = <<>> \/ Head(w) = 32 THEN <<>> ELSE <<Head(w)>> \o UpToSpace(Tail(w))
AfterSpace(w) == SubSeq(w, Len(UpToSpace(w)) + 2, Len(w))

Segment1(line) == UpToSpace(line)
Segment2(line) == UpToSpace(AfterSpace(line))
Segment3(line) == AfterSpace(AfterSpace(line))

\* date, time, body in this order, each followed by its separator
ThreeSegments(t, line) ==
    /\ Segment1(line) = CStr(frame[t].date_str)
    /\ Segment1(line) # <<>>
    /\ Segment2(line) = CStr(frame[t].time_str)
    /\ Segment2(line) # <<>>
    /\ Segment3(line) = EncodeWide(frame[t].body) \o <<10>>
    /\ Len(line) = Len(Segment1(line)) + 1 + Len(Segment2(line)) + 1 + Len(Segment3(line))

EndsWithOneNewline(line) ==
    /\ Len(line) >= 1
    /\ line[Len(line)] = 10
    /\ Len(line) >= 2 => line[Len(line) - 1] # 10

\* C6 as claimed: every line passed to the debug-output primitive ends with
\* exactly one newline character and consists of the segments date, time,
\* body separated by single spaces, whatever the message holds.
C6_AsClaimed ==
    \A t \in Threads :
        \A i \in 1..Len(debug[t]) :
            /\ EndsWithOneNewline(debug[t][i])
            /\ ThreeSegments(t, debug[t][i])

\* C6 as amended: every line passed to the debug-output primitive is the
\* date, a space, the time, a space, the body and one appended newline, date
\* and time holding no space; it ends with exactly one newline character
\* when the message does not itself end with a newline.
C6_FinalLine ==
    \A t \in Threads :
        \A i \in 1..Len(debug[t]) :
            LET line == debug[t][i]
                msg == frame[t].record.args
            IN  /\ ThreeSegments(t, line)
                /\ line[Len(line)] = 10
                /\ (msg = <<>> \/ msg[Len(msg)] # "\n") => EndsWithOneNewline(line)

\* a line whose message holds a newline inside and a line whose message
\* holds spaces have been output
C6_Witness ==
    \E t \in Threads :
        /\ Len(debug[t]) = 1
        /\ frame[t].record.args = TwoLines
        /\ frame[t].record.target = AppNet
        /\ EndsWithOneNewline(debug[t][1])

\* C7: in one emit the buffer FormatMessageW allocated is released exactly
\* once before the return and after the debug-output call; nothing is
\* released when no buffer was allocated; only calls between allocation and
\* release hold a live buffer.
C7_BufferReleasedOnce ==
    /\ \A t \in Threads :
        LET allocated == Has(trace[t], <<"format", "ok">>)
            frees == Count(trace[t], <<"free", "ok">>)
        IN  /\ frees <= 1
            /\ frees = 1 => allocated /\ Before(trace[t], <<"output", "ok">>, <<"free", "ok">>)
            /\ ~allocated => frees = 0 /\ frame[t].final_str = 0
            /\ pc[t] = "ret" /\ allocated => frees = 1
            /\ pc[t] \in {"output", "free"} => heap[frame[t].final_str].live
    /\ Cardinality({a \in Addrs : heap[a].live})
        = Cardinality({t \in Threads : pc[t] \in {"output", "free"}})

\* an emit has run to its end: allocated, output, released, nothing live
C7_Witness ==
    \E t \in Threads :
        /\ pc[t] = "ret"
        /\ frame[t].result = "Some"
        /\ frame[t].final_str # 0
        /\ Count(trace[t], <<"free", "ok">>) = 1
        /\ \A a \in Addrs : ~heap[a].live

\* C8, the state part: the sink init() installed has threshold Trace, which
\* no level exceeds; no record is returned at its filter and each one whose
\* steps succeed has been output when the call returns; the sink
\* init_with_level(L) or init_with_level_static!(L) installed has threshold L.
C8_Installed ==
    /\ logger # NoLogger /\ firstInit.fn = "init" =>
        /\ logger.level = "Trace"
        /\ \A l \in Levels : Rank[l] <= Rank[logger.level]
        /\ \A t \in Threads :
            /\ frame[t].result # "filtered"
            /\ pc[t] = "ret" /\ ~StepFailed(t) => Len(debug[t]) = 1
    /\ logger # NoLogger /\ firstInit.fn \in {"init_with_level", "init_with_level_static"} =>
        logger.level = firstInit.level

\* C8: after a successful init() the threshold is Trace and a record of
\* every level passes the filter; after a successful init_with_level(L) or
\* init_with_level_static!(L) the threshold is L; the threshold of the
\* installed sink never changes.
C8_Threshold ==
    /\ []C8_Installed
    /\ [][logger # NoLogger => logger' = logger]_vars

\* after init(), a Trace record has been emitted and a later entry-point
\* call has been made
C8_Witness ==
    /\ firstInit.fn = "init"
    /\ initCount >= 2
    /\ \E t \in Threads :
        /\ pc[t] = "ret"
        /\ frame[t].record.level = "Trace"
        /\ Len(debug[t]) = 1

\* the line of a call: its own time, rendered, and its own body
OwnLine(t) ==
    InvariantDate(frame[t].system_time) \o <<32>> \o InvariantTime(frame[t].system_time)
        \o <<32>> \o EncodeWide(frame[t].body) \o <<10>>

\* C9: with several threads emitting concurrently, a record that passes the
\* filter and whose steps all succeed gets exactly one debug-output call
\* carrying its own date, time and body; no step runs twice; the buffer a
\* call holds is its own and holds its own line.
C9_OwnLineOnce ==
    \A t \in ConcThreads :
        /\ \A i \in 1..Len(debug[t]) : debug[t][i] = OwnLine(t)
        /\ Len(debug[t]) <= 1
        /\ (/\ pc[t] = "ret"
            /\ Rank[frame[t].record.level] <= Rank[logger.level]
            /\ ~StepFailed(t))
           => Len(debug[t]) = 1
        /\ \A i, j \in 1..Len(trace[t]) : trace[t][i][1] = trace[t][j][1] => i = j
        /\ pc[t] \in {"output", "free"} =>
            /\ heap[frame[t].final_str].live
            /\ CStr(heap[frame[t].final_str].data) = OwnLine(t)
            /\ \A u \in ConcThreads \ {t} :
                pc[u] \in {"output", "free"} => frame[u].final_str # frame[t].final_str

\* one thread has output its line while another, with another record and
\* another time, holds its composed line
C9_Witness ==
    \E t, u \in ConcThreads :
        /\ t # u
        /\ pc[t] = "ret" /\ Len(debug[t]) = 1
        /\ pc[u] = "free" /\ Len(debug[u]) = 1
        /\ frame[u].record # frame[t].record
        /\ frame[u].system_time # frame[t].system_time

\* C10: a call to an entry point made while a logger is installed returns
\* SetLoggerError and leaves the installed logger and the global maximum
\* level as they were; the maximum level changes only in a call that
\* returns Ok; it is the installed threshold's filter, Off before.
C10_FailedInitChangesNothing ==
    /\ [](logger = NoLogger => maxLevel = LevelFilterOff)
    /\ [](logger # NoLogger => maxLevel = Rank[firstInit.level])
    /\ [][(logger # NoLogger /\ initCount' # initCount) =>
            /\ lastInit'.ret = "SetLoggerError"
            /\ logger' = logger
            /\ maxLevel' = maxLevel]_vars
    /\ [][maxLevel' # maxLevel =>
            /\ initCount' # initCount
            /\ lastInit'.ret = "Ok"]_vars

\* init_with_level(L2) has failed after L1 was installed, L2 more verbose
C10_Witness ==
    /\ initCount >= 2
    /\ lastInit.fn = "init_with_level"
    /\ lastInit.ret = "SetLoggerError"
    /\ Rank[lastInit.level] > Rank[firstInit.level]
    /\ maxLevel = Rank[firstInit.level]
    /\ logger.level = firstInit.level

====
